---------------------------- MODULE Spec2Model ----------------------------
(***************************************************************************)
(* Distributed key-value store: the consistent-hash ring (hash/hash.go),   *)
(* the guarded local store (store/kvstore.go) and the per-node gRPC        *)
(* service that serves a key locally or forwards it to its owner (main.go).*)
(*                                                                         *)
(* Strings are sequences of bytes (ASCII codes).  A Go int that holds a    *)
(* CRC-32 is written as a two-digit numeral <<hi, lo>> in base 2^16, so    *)
(* that all 32 bits are kept; IntLess compares such numerals.              *)
(***************************************************************************)
EXTENDS Integers, Sequences, FiniteSets, TLC

(***************************************************************************)
(* Bounds of the model.                                                    *)
(***************************************************************************)
MaxReplication == 3     \* replication factors tried by the ring specification
MaxAdds == 3            \* AddNode calls on one ring
NumKeys == 5            \* keys looked up in the ring specification
NumReqKeys == 1         \* keys of the requests of the clients of the cluster
NumStoreKeys == 2       \* keys of the calls on one store
MaxCalls == 2           \* calls each goroutine makes on the store
MaxHops == 3            \* servers one request passes through

Range(s) == {s[i] : i \in DOMAIN s}

(***************************************************************************)
(* Strings.                                                                *)
(***************************************************************************)
Localhost5005 == <<108, 111, 99, 97, 108, 104, 111, 115, 116, 58, 53, 48, 48, 53>>
N1 == Localhost5005 \o <<49>>     \* "localhost:50051"
N2 == Localhost5005 \o <<50>>     \* "localhost:50052"
N3 == Localhost5005 \o <<51>>     \* "localhost:50053"
NodeIds == {N1, N2, N3}
\* "plumless" and "buckeroo": two identifiers with the same CRC-32, hence with
\* the same CRC-32 at every virtual index
Plumless == <<112, 108, 117, 109, 108, 101, 115, 115>>
Buckeroo == <<98, 117, 99, 107, 101, 114, 111, 111>>
RingNodeIds == NodeIds \cup {Plumless, Buckeroo}

\* "mykey", "b", "c", "dr", "localhost:500510" (the hash input of N1's
\* virtual node 0), "a", "z"
KeySeq ==
  << <<109, 121, 107, 101, 121>>, <<98>>, <<99>>, <<100, 114>>,
     N1 \o <<48>>, <<97>>, <<122>> >>
Min(a, b) == IF a < b THEN a ELSE b
Keys == {KeySeq[i] : i \in 1..Min(NumKeys, Len(KeySeq))}
\* the keys of the requests of the clients of the cluster
ReqKeys == {KeySeq[i] : i \in 1..Min(NumReqKeys, Len(KeySeq))}
\* the keys of the calls on one store
StoreKeys == {KeySeq[i] : i \in 1..Min(NumStoreKeys, Len(KeySeq))}
\* "myvalue", "v"
ValueSeq == << <<109, 121, 118, 97, 108, 117, 101>>, <<118>> >>
Values == Range(ValueSeq)

\* strconv.Itoa for i >= 0: the decimal digits of i, most significant first.
RECURSIVE Itoa(_)
Itoa(i) == IF i < 10 THEN <<48 + i>> ELSE Itoa(i \div 10) \o <<48 + (i % 10)>>

(***************************************************************************)
(* crc32.ChecksumIEEE: the table-driven reflected CRC-32 with polynomial   *)
(* 0xEDB88320, initial value and final complement 0xFFFFFFFF, on <<hi, lo>>*)
(***************************************************************************)
RECURSIVE Xor(_, _)
Xor(a, b) ==
  IF a = 0 THEN b
  ELSE IF b = 0 THEN a
  ELSE ((a + b) % 2) + 2 * Xor(a \div 2, b \div 2)

Xor32(x, y) == <<Xor(x[1], y[1]), Xor(x[2], y[2])>>
Shr32(x, k) == <<x[1] \div (2^k), (x[2] \div (2^k)) + (x[1] % (2^k)) * (2^(16 - k))>>
IEEE == <<60856, 33568>>          \* 0xEDB88320
Ones32 == <<65535, 65535>>        \* 0xFFFFFFFF

Word32 == Nat \X Nat

\* one bit of the division: shift right, xor the polynomial on carry
CrcBit == [c \in Word32 |-> IF c[2] % 2 = 1 THEN Xor32(Shr32(c, 1), IEEE) ELSE Shr32(c, 1)]

RECURSIVE CrcBits(_, _)
CrcBits(c, n) == IF n = 0 THEN c ELSE CrcBit[CrcBits(c, n - 1)]

IEEETable == [i \in 0..255 |-> CrcBits(<<0, i>>, 8)]

\* one byte: crc = tab[byte(crc) ^ v] ^ (crc >> 8)
CrcStep ==
  [c \in Word32, v \in 0..255 |-> Xor32(IEEETable[Xor(c[2] % 256, v)], Shr32(c, 8))]

\* the register after the bytes s[1..n]
RECURSIVE CrcUpdate(_, _, _)
CrcUpdate(c, s, n) == IF n = 0 THEN c ELSE CrcStep[CrcUpdate(c, s, n - 1), s[n]]

ChecksumIEEE(s) == Xor32(CrcUpdate(Ones32, s, Len(s)), Ones32)

\* every string the model ever hashes, with its checksum
HashInputs == Keys \cup ReqKeys \cup {n \o Itoa(i) : n \in RingNodeIds, i \in 0..(MaxReplication - 1)}
Crc32Table == {<<s, ChecksumIEEE(s)>> : s \in HashInputs}
Crc32(s) == (CHOOSE e \in Crc32Table : e[1] = s)[2]

VARIABLES
  intBits,      \* width of the build's int: 32 or 64
  hr,           \* a HashRing: [nodes, nodeMap, replication]
  added,        \* history: the AddNode calls made on hr, in order
  lookup,       \* the last GetNode call on hr: [key, res, prev], prev being
                \* <<r>> when the call before it, with no AddNode between the
                \* two, had the same key and returned r
  hashRing,     \* cluster: hashRing[s] is the ring of the server at address s
  up,           \* cluster: up[s] iff the process at address s is serving
  data,         \* cluster: data[s] is the map of the store of server s
  call,         \* cluster: call[c] is the request of client c and its progress
  settled,      \* history: settled[k] is <<v>> when a Put of v to k has returned
                \* success and no Put or Delete of k was issued since its issue
  kvs,          \* one KeyValueStore: [data, mu]
  thr,          \* store: thr[t] is the call of goroutine t on kvs and its progress
  lastWrite     \* history: lastWrite[k] is the last Put or Delete executed on k

ringVars == <<hr, added, lookup>>
clusterVars == <<hashRing, up, data, call, settled>>
storeVars == <<kvs, thr, lastWrite>>
vars ==
  <<intBits, hr, added, lookup, hashRing, up, data, call, settled, kvs, thr, lastWrite>>

\* int(uint32): unchanged where int has 64 bits, two's complement where it has 32.
ToInt(bits, h) == IF bits = 32 /\ h[1] >= 32768 THEN <<h[1] - 65536, h[2]>> ELSE h

IntLess(a, b) == a[1] < b[1] \/ (a[1] = b[1] /\ a[2] < b[2])
IntGeq(a, b) == ~IntLess(a, b)

Hash(bits, s) == ToInt(bits, Crc32(s))


(***************************************************************************)
(* hash/hash.go                                                            *)
(***************************************************************************)
NewHashRing(replication) ==
  [nodes |-> <<>>, nodeMap |-> <<>>, replication |-> replication]

\* an insertion that puts the new integer first
InsertFirst(s, x) == <<x>> \o s

\* sort.Ints: the ascending arrangement of the same integers
RECURSIVE Insert(_, _)
Insert(s, x) ==
  IF s = <<>> THEN <<x>>
  ELSE IF IntLess(x, Head(s)) THEN <<x>> \o s
  ELSE <<Head(s)>> \o Insert(Tail(s), x)

\* a sort that leaves the integers where they are
Unsorted(s) == s

RECURSIVE SortInts(_)
SortInts(s) == IF s = <<>> THEN <<>> ELSE Insert(SortInts(Tail(s)), Head(s))

\* a map store that is lost
MapPutLost(m, h, node) == m

\* m[h] = node on a Go map
MapPut(m, h, node) == [x \in (DOMAIN m) \cup {h} |-> IF x = h THEN node ELSE m[x]]

\* the loop of AddNode from virtual index i on
RECURSIVE AddLoop(_, _, _, _)
AddLoop(bits, ring, node, i) ==
  IF i < ring.replication
    THEN LET hash == Hash(bits, node \o Itoa(i))
         IN AddLoop(bits,
                    [ring EXCEPT !.nodes = Append(ring.nodes, hash),
                                 !.nodeMap = MapPut(ring.nodeMap, hash, node)],
                    node, i + 1)
    ELSE ring

\* an AddNode that leaves the ring alone when the node has entries in it
AddNodeOnce(bits, ring, node) ==
  IF node \in Range(ring.nodeMap) THEN ring
  ELSE LET r == AddLoop(bits, ring, node, 0)
       IN [r EXCEPT !.nodes = SortInts(r.nodes)]

AddNode(bits, ring, node) ==
  LET r == AddLoop(bits, ring, node, 0)
  IN [r EXCEPT !.nodes = SortInts(r.nodes)]

\* the search with f(i) = nodes[i] > hash
RECURSIVE SearchStrict(_, _, _, _)
SearchStrict(nodes, hash, i, j) ==
  IF i < j
    THEN LET h == (i + j) \div 2
         IN IF ~IntLess(hash, nodes[h + 1])
              THEN SearchStrict(nodes, hash, h + 1, j)
              ELSE SearchStrict(nodes, hash, i, h)
    ELSE i

\* sort.Search(n, f) with f(i) = nodes[i] >= hash: binary search on [i, j),
\* indices counted from 0 as in Go
RECURSIVE Search(_, _, _, _)
Search(nodes, hash, i, j) ==
  IF i < j
    THEN LET h == (i + j) \div 2
         IN IF ~IntGeq(nodes[h + 1], hash)
              THEN Search(nodes, hash, h + 1, j)
              ELSE Search(nodes, hash, i, h)
    ELSE i

EmptyString == <<>>

\* GetNode: [panic |-> TRUE] stands for the run-time panic "index out of
\* range" of hr.nodes[idx]; a hash missing from nodeMap reads as "".
GetNode(bits, ring, key) ==
  LET hash == Hash(bits, key)
      found == Search(ring.nodes, hash, 0, Len(ring.nodes))
      idx == IF found = Len(ring.nodes) THEN 0 ELSE found
  IN IF idx >= Len(ring.nodes)
       THEN [panic |-> TRUE, node |-> EmptyString]
       ELSE [panic |-> FALSE,
             node |-> IF ring.nodes[idx + 1] \in DOMAIN ring.nodeMap
                        THEN ring.nodeMap[ring.nodes[idx + 1]]
                        ELSE EmptyString]

(***************************************************************************)
(* The ring as a library: one ring, any sequence of AddNode and GetNode.   *)
(***************************************************************************)
NoLookup ==
  [key |-> EmptyString, res |-> [panic |-> FALSE, node |-> EmptyString],
   prev |-> <<>>]

InitRing ==
  /\ intBits \in {32, 64}
  /\ \E replication \in 0..MaxReplication : hr = NewHashRing(replication)
  /\ added = <<>>
  /\ lookup = NoLookup
  /\ hashRing = <<>> /\ up = <<>> /\ data = <<>> /\ call = <<>> /\ settled = <<>>
  /\ kvs = <<>> /\ thr = <<>> /\ lastWrite = <<>>

DoAddNode(node) ==
  /\ Len(added) < MaxAdds
  /\ hr' = AddNode(intBits, hr, node)
  /\ added' = Append(added, node)
  /\ lookup' = NoLookup
  /\ UNCHANGED <<intBits, clusterVars, storeVars>>

\* a GetNode that keeps the hash it looked up as an entry of the ring
DoGetNodeCaching(key) ==
  /\ lookup' = [key |-> key, res |-> GetNode(intBits, hr, key),
                prev |-> IF lookup.key = key THEN <<lookup.res>> ELSE <<>>]
  /\ hr' = [hr EXCEPT !.nodes = SortInts(Append(hr.nodes, Hash(intBits, key))),
                      !.nodeMap = MapPut(hr.nodeMap, Hash(intBits, key), key)]
  /\ UNCHANGED <<intBits, added, clusterVars, storeVars>>

DoGetNode(key) ==
  /\ lookup' = [key |-> key, res |-> GetNode(intBits, hr, key),
                prev |-> IF lookup.key = key THEN <<lookup.res>> ELSE <<>>]
  /\ UNCHANGED <<intBits, hr, added, clusterVars, storeVars>>

NextRing ==
  \/ \E node \in RingNodeIds : DoAddNode(node)
  \/ \E key \in Keys : DoGetNode(key)

SpecRing == InitRing /\ [][NextRing]_vars


(***************************************************************************)
(* store/kvstore.go: the map of a KeyValueStore and what Put, Get and      *)
(* Delete do to it inside their critical sections.                         *)
(***************************************************************************)
NewKeyValueStore == <<>>

\* a Put that is lost
KvPutLost(d, key, value) == d

\* a Put that replaces the whole map
KvPutClobber(d, key, value) == [x \in {key} |-> value]

\* kvs.data[key] = value
KvPut(d, key, value) ==
  [x \in (DOMAIN d) \cup {key} |-> IF x = key THEN value ELSE d[x]]

\* value, exists := kvs.data[key]
KvGet(d, key) ==
  IF key \in DOMAIN d
    THEN [value |-> d[key], exists |-> TRUE]
    ELSE [value |-> EmptyString, exists |-> FALSE]

\* a Delete that empties the map
KvDeleteAll(d, key) == <<>>

\* delete(kvs.data, key)
KvDelete(d, key) == [x \in (DOMAIN d) \ {key} |-> d[x]]

(***************************************************************************)
(* One KeyValueStore called by several goroutines.  Put and Delete hold    *)
(* kvs.mu exclusively, Get holds it shared; the deferred unlock runs when  *)
(* the call returns.                                                       *)
(***************************************************************************)
\* the goroutines of two concurrent calls
Threads == {1, 2}

\* sync.RWMutex: w is the writer that holds the writers' mutex (0: none), from
\* the moment it announces itself; readers are the holders of the read lock
NewRWMutex == [w |-> 0, readers |-> {}]
\* Lock passes the writers' mutex and announces the writer
CanLock(mu) == mu.w = 0
\* a Lock that does not wait for the readers
NeverWaits(mu) == TRUE

\* Lock returns once the readers that held the lock have left
Drained(mu) == mu.readers = {}
\* RLock returns unless a writer holds the lock or waits for it
CanRLock(mu) == mu.w = 0

NoCall ==
  [pc |-> "idle", op |-> "Get", key |-> EmptyString, value |-> EmptyString,
   ret |-> [value |-> EmptyString, exists |-> FALSE], prior |-> <<>>, n |-> 0]

InitStore ==
  /\ intBits = 64
  /\ hr = <<>> /\ added = <<>> /\ lookup = <<>>
  /\ hashRing = <<>> /\ up = <<>> /\ data = <<>> /\ call = <<>> /\ settled = <<>>
  /\ kvs = [data |-> NewKeyValueStore, mu |-> NewRWMutex]
  /\ thr = [t \in Threads |-> NoCall]
  /\ lastWrite = [k \in StoreKeys |-> <<>>]

\* goroutine t calls Put, Get or Delete
StoreCall(t, op, key, value) ==
  /\ thr[t].pc = "idle"
  /\ thr[t].n < MaxCalls
  /\ thr' = [thr EXCEPT ![t] =
               [pc |-> "lock", op |-> op, key |-> key,
                value |-> IF op = "Put" THEN value ELSE EmptyString,
                ret |-> [value |-> EmptyString, exists |-> FALSE],
                prior |-> <<>>, n |-> thr[t].n + 1]]
  /\ UNCHANGED <<intBits, ringVars, clusterVars, kvs, lastWrite>>

\* kvs.mu.Lock(), first half: the writer announces itself
LockBegin(t) ==
  /\ thr[t].pc = "lock" /\ thr[t].op \in {"Put", "Delete"}
  /\ CanLock(kvs.mu)
  /\ kvs' = [kvs EXCEPT !.mu.w = t]
  /\ thr' = [thr EXCEPT ![t].pc = "drain"]
  /\ UNCHANGED <<intBits, ringVars, clusterVars, lastWrite>>

\* kvs.mu.Lock(), second half: the readers have left
LockEnd(t) ==
  /\ thr[t].pc = "drain"
  /\ Drained(kvs.mu)
  /\ thr' = [thr EXCEPT ![t].pc = "cs"]
  /\ UNCHANGED <<intBits, ringVars, clusterVars, kvs, lastWrite>>

\* kvs.mu.RLock()
RLock(t) ==
  /\ thr[t].pc = "lock" /\ thr[t].op = "Get"
  /\ CanRLock(kvs.mu)
  /\ kvs' = [kvs EXCEPT !.mu.readers = kvs.mu.readers \cup {t}]
  /\ thr' = [thr EXCEPT ![t].pc = "cs"]
  /\ UNCHANGED <<intBits, ringVars, clusterVars, lastWrite>>

\* kvs.data[key] = value, then the deferred Unlock
ExecPut(t) ==
  /\ thr[t].pc = "cs" /\ thr[t].op = "Put"
  /\ kvs' = [kvs EXCEPT !.data = KvPut(kvs.data, thr[t].key, thr[t].value),
                        !.mu.w = 0]
  /\ lastWrite' = [lastWrite EXCEPT ![thr[t].key] = <<"Put", thr[t].value>>]
  /\ thr' = [thr EXCEPT ![t].pc = "idle"]
  /\ UNCHANGED <<intBits, ringVars, clusterVars>>

\* value, exists := kvs.data[key], then the deferred RUnlock
ExecGet(t) ==
  /\ thr[t].pc = "cs" /\ thr[t].op = "Get"
  /\ kvs' = [kvs EXCEPT !.mu.readers = kvs.mu.readers \ {t}]
  /\ thr' = [thr EXCEPT ![t].pc = "idle",
                        ![t].ret = KvGet(kvs.data, thr[t].key),
                        ![t].prior = lastWrite[thr[t].key]]
  /\ UNCHANGED <<intBits, ringVars, clusterVars, lastWrite>>

\* delete(kvs.data, key), then the deferred Unlock
ExecDelete(t) ==
  /\ thr[t].pc = "cs" /\ thr[t].op = "Delete"
  /\ kvs' = [kvs EXCEPT !.data = KvDelete(kvs.data, thr[t].key), !.mu.w = 0]
  /\ lastWrite' = [lastWrite EXCEPT ![thr[t].key] = <<"Delete">>]
  /\ thr' = [thr EXCEPT ![t].pc = "idle"]
  /\ UNCHANGED <<intBits, ringVars, clusterVars>>

NextStore ==
  \/ \E t \in Threads, op \in {"Put", "Get", "Delete"}, key \in StoreKeys,
         value \in Values : StoreCall(t, op, key, value)
  \/ \E t \in Threads : LockBegin(t)
  \/ \E t \in Threads : LockEnd(t)
  \/ \E t \in Threads : RLock(t)
  \/ \E t \in Threads : ExecPut(t)
  \/ \E t \in Threads : ExecGet(t)
  \/ \E t \in Threads : ExecDelete(t)

SpecStore == InitStore /\ [][NextStore]_vars

(***************************************************************************)
(* main.go: one process per address of the node list, each with the ring   *)
(* main builds, its own store and its own currentNode.  A client request   *)
(* is received by a server, served from the local store or forwarded to    *)
(* the owner, and the response returns along the same path.                *)
(***************************************************************************)
\* two clients, each with one request at a time: their requests overlap
Clients == {1, 2}
Ops == {"Put", "Get", "Delete"}

\* nodes := []string{...} and hash.NewHashRing(3) of main
MainNodes == <<N1, N2, N3>>
MainReplication == 3

\* the loop of main: AddNode for each node of the list, in order
RECURSIVE AddAll(_, _, _)
AddAll(bits, ring, list) ==
  IF list = <<>> THEN ring
  ELSE AddAll(bits, AddNode(bits, ring, Head(list)), Tail(list))

\* responses and errors as the handlers return them; err = "" is a nil error
NoErr == ""
PutResponse(success) ==
  [err |-> NoErr, success |-> success, value |-> EmptyString, found |-> FALSE]
GetResponse(value, found) ==
  [err |-> NoErr, success |-> FALSE, value |-> value, found |-> found]
DeleteResponse(success) ==
  [err |-> NoErr, success |-> success, value |-> EmptyString, found |-> FALSE]
Failure(err) ==
  [err |-> err, success |-> FALSE, value |-> EmptyString, found |-> FALSE]

\* path: the servers the request has reached; tried: the owners the handlers
\* called.  History: served is the server that called its store, existed
\* whether it held the key then; quiet holds while no other client has issued
\* a Put or Delete of the key; expect is settled[key] at the issue of a Get.
Idle ==
  [phase |-> "idle", op |-> "Get", key |-> EmptyString, value |-> EmptyString,
   path |-> <<>>, tried |-> <<>>, result |-> Failure(NoErr),
   served |-> EmptyString, existed |-> FALSE, quiet |-> FALSE, expect |-> <<>>]

\* main builds one Server, with currentNode "localhost:50051"; the cluster is
\* one Server per address of the node list, each built as main builds its own:
\* the ring of all three addresses and an empty store.  A server that is not
\* up refuses the connections of the others.
InitCluster ==
  /\ intBits = 64
  /\ hr = <<>> /\ added = <<>> /\ lookup = <<>>
  /\ kvs = <<>> /\ thr = <<>> /\ lastWrite = <<>>
  /\ hashRing = [s \in NodeIds |->
                   AddAll(intBits, NewHashRing(MainReplication), MainNodes)]
  /\ up \in [NodeIds -> BOOLEAN]
  /\ data = [s \in NodeIds |-> NewKeyValueStore]
  /\ call = [c \in Clients |-> Idle]
  /\ settled = [k \in ReqKeys |-> <<>>]

IsWrite(op) == op \in {"Put", "Delete"}

\* a client sends a request to the server at address s
ClientCall(c, s, op, key, value) ==
  /\ call[c].phase = "idle"
  /\ up[s]
  /\ call' = [d \in Clients |->
                IF d = c
                  THEN [phase |-> "recv", op |-> op, key |-> key,
                        value |-> IF op = "Put" THEN value ELSE EmptyString,
                        path |-> <<s>>, tried |-> <<>>, result |-> Failure(NoErr),
                        served |-> EmptyString, existed |-> FALSE,
                        quiet |-> \A e \in Clients \ {c} :
                                    ~(call[e].phase # "idle" /\ call[e].key = key
                                      /\ IsWrite(call[e].op)),
                        expect |-> IF op = "Get" THEN settled[key] ELSE <<>>]
                  ELSE IF IsWrite(op) /\ call[d].key = key
                         THEN [call[d] EXCEPT !.quiet = FALSE]
                         ELSE call[d]]
  /\ settled' = IF IsWrite(op) THEN [settled EXCEPT ![key] = <<>>] ELSE settled
  /\ UNCHANGED <<intBits, ringVars, storeVars, hashRing, up, data>>

\* the server handling the request of c, and the owner its ring names
At(c) == call[c].path[Len(call[c].path)]

\* servers whose rings disagree: each names the next server of the list
TargetNext(c) ==
  [panic |-> FALSE,
   node |-> CHOOSE s \in NodeIds :
              \E i \in DOMAIN MainNodes :
                MainNodes[i] = At(c) /\ MainNodes[(i % Len(MainNodes)) + 1] = s]

\* a server that takes itself for the owner of every key
TargetSelf(c) == [panic |-> FALSE, node |-> At(c)]

Target(c) == GetNode(intBits, hashRing[At(c)], call[c].key)

\* a handler that serves every request itself
AlwaysServe(targetNode, currentNode) == TRUE

\* targetNode == s.currentNode
MustServe(targetNode, currentNode) == targetNode = currentNode

\* targetNode != s.currentNode
MustForward(targetNode, currentNode) == targetNode # currentNode

\* the local branch of Put, Get and Delete on the store map d
LocalStore(op, d, key, value) ==
  CASE op = "Put" -> KvPut(d, key, value)
    [] op = "Get" -> d
    [] op = "Delete" -> KvDelete(d, key)

\* a local branch that reports whether the key was there
LocalResponseStrict(op, d, key) ==
  CASE op = "Put" -> PutResponse(TRUE)
    [] op = "Get" -> GetResponse(KvGet(d, key).value, KvGet(d, key).exists)
    [] op = "Delete" -> DeleteResponse(KvGet(d, key).exists)

\* the responses of the local branch of Put, Get and Delete
LocalResponse(op, d, key) ==
  CASE op = "Put" -> PutResponse(TRUE)
    [] op = "Get" -> GetResponse(KvGet(d, key).value, KvGet(d, key).exists)
    [] op = "Delete" -> DeleteResponse(TRUE)

\* a handler that drops the value of the response it forwards
RelayWithoutValue(response) == [response EXCEPT !.value = EmptyString]

\* return client.Put(ctx, req): what a forwarding handler returns for the
\* response of the server it called
Relay(response) == response

\* a response passed back through the handlers that forwarded the request
RECURSIVE RelayAlong(_, _)
RelayAlong(hops, response) ==
  IF hops = 0 THEN response ELSE RelayAlong(hops - 1, Relay(response))

\* the handler finds itself the owner: it calls its store and responds; the
\* response is on its way to the client
ServeLocal(c) ==
  /\ call[c].phase = "recv"
  /\ up[At(c)]
  /\ ~Target(c).panic
  /\ MustServe(Target(c).node, At(c))
  /\ data' = [data EXCEPT ![At(c)] =
                LocalStore(call[c].op, data[At(c)], call[c].key, call[c].value)]
  /\ call' = [call EXCEPT
                ![c].phase = "ret",
                ![c].served = At(c),
                ![c].existed = KvGet(data[At(c)], call[c].key).exists,
                ![c].result =
                   RelayAlong(Len(call[c].path) - 1,
                              LocalResponse(call[c].op, data[At(c)], call[c].key))]
  /\ UNCHANGED <<intBits, ringVars, storeVars, hashRing, up, settled>>

\* the handler dials the owner and calls it with the same request
Forward(c) ==
  /\ call[c].phase = "recv"
  /\ up[At(c)]
  /\ ~Target(c).panic
  /\ MustForward(Target(c).node, At(c))
  /\ Target(c).node \in NodeIds /\ up[Target(c).node]
  /\ Len(call[c].path) < MaxHops
  /\ call' = [call EXCEPT ![c].path = Append(call[c].path, Target(c).node),
                          ![c].tried = Append(call[c].tried, Target(c).node)]
  /\ UNCHANGED <<intBits, ringVars, storeVars, hashRing, up, data, settled>>

\* grpc.Dial or the remote call fails: the handler returns nil and the error
ForwardErrors == {"dial failed", "call failed"}

\* a handler that serves the request from its own store when the owner fails
ForwardFailsFallback(c, err) ==
  /\ call[c].phase = "recv"
  /\ up[At(c)]
  /\ ~Target(c).panic
  /\ MustForward(Target(c).node, At(c))
  /\ ~(Target(c).node \in NodeIds /\ up[Target(c).node])
  /\ data' = [data EXCEPT ![At(c)] =
                LocalStore(call[c].op, data[At(c)], call[c].key, call[c].value)]
  /\ call' = [call EXCEPT
                ![c].phase = "ret",
                ![c].served = At(c),
                ![c].result =
                   RelayAlong(Len(call[c].path) - 1,
                              LocalResponse(call[c].op, data[At(c)], call[c].key)),
                ![c].tried = Append(call[c].tried, Target(c).node)]
  /\ UNCHANGED <<intBits, ringVars, storeVars, hashRing, up, settled>>

ForwardFails(c, err) ==
  /\ call[c].phase = "recv"
  /\ up[At(c)]
  /\ ~Target(c).panic
  /\ MustForward(Target(c).node, At(c))
  /\ ~(Target(c).node \in NodeIds /\ up[Target(c).node])
  /\ call' = [call EXCEPT
                ![c].phase = "ret",
                ![c].result = RelayAlong(Len(call[c].path) - 1, Failure(err)),
                ![c].tried = Append(call[c].tried, Target(c).node)]
  /\ UNCHANGED <<intBits, ringVars, storeVars, hashRing, up, data, settled>>

\* the client receives the response
Return(c) ==
  /\ call[c].phase = "ret"
  /\ settled' =
       IF /\ call[c].op = "Put" /\ call[c].quiet
          /\ call[c].result.err = NoErr /\ call[c].result.success
         THEN [settled EXCEPT ![call[c].key] = <<call[c].value>>]
         ELSE settled
  /\ call' = [call EXCEPT ![c] = Idle]
  /\ UNCHANGED <<intBits, ringVars, storeVars, hashRing, up, data>>

Next ==
  \/ \E c \in Clients, s \in NodeIds, op \in Ops, key \in ReqKeys, value \in Values :
        ClientCall(c, s, op, key, value)
  \/ \E c \in Clients : ServeLocal(c)
  \/ \E c \in Clients : Forward(c)
  \/ \E c \in Clients, err \in ForwardErrors : ForwardFails(c, err)
  \/ \E c \in Clients : Return(c)

Spec == InitCluster /\ [][Next]_vars


(***************************************************************************)
(* Properties of the ring (SpecRing).                                      *)
(***************************************************************************)
Looked == lookup.key # EmptyString
LookupHash == Hash(intBits, lookup.key)

\* the entries of hr at or after hash h, as hash values
AtOrAfter(h) == {x \in Range(hr.nodes) : IntGeq(x, h)}
\* the least of a non-empty set of hash values
Least(S) == CHOOSE x \in S : \A y \in S : ~IntLess(y, x)

\* C1: on a non-empty ring GetNode(K) returns the node mapped to the least
\* entry whose hash is >= hash(K), and when hash(K) is greater than every
\* entry it returns the node mapped to the entry at index 0.
C1_GetNodeFirstAtOrAfter ==
  (Looked /\ hr.nodes # <<>>) =>
     /\ ~lookup.res.panic
     /\ lookup.res.node =
          hr.nodeMap[IF AtOrAfter(LookupHash) = {}
                       THEN hr.nodes[1]
                       ELSE Least(AtOrAfter(LookupHash))]

\* a lookup on a ring of two nodes whose key hashes above every entry and
\* that was answered with the node of the first entry
C1_Witness ==
  /\ Looked
  /\ Cardinality(Range(added)) >= 2
  /\ hr.nodes # <<>>
  /\ AtOrAfter(LookupHash) = {}
  /\ lookup.res.node = hr.nodeMap[hr.nodes[1]]

\* C2: on an empty ring GetNode(K) fails explicitly and never indexes the
\* entry sequence out of range.
C2_EmptyRingFailsExplicitly ==
  (Looked /\ hr.nodes = <<>>) => ~lookup.res.panic

\* C3 as claimed: after one or more AddNode calls, GetNode(K) returns a member
\* of the set of nodes that were added.
C3_AfterAnyAddNode ==
  (Looked /\ added # <<>>) =>
     (~lookup.res.panic /\ lookup.res.node \in Range(added))

\* C3 amended: after one or more AddNode calls on a ring whose replication
\* factor is at least 1, GetNode(K) returns a member of the set of nodes that
\* were added.
C3_MemberOfAdded ==
  (Looked /\ added # <<>> /\ hr.replication >= 1) =>
     (~lookup.res.panic /\ lookup.res.node \in Range(added))

C3_Witness ==
  /\ Looked
  /\ Cardinality(Range(added)) >= 2
  /\ hr.replication >= 1
  /\ lookup.res.node \in Range(added)
  /\ lookup.res.node # added[1]


(***************************************************************************)
(* Properties of the cluster (Spec).                                       *)
(***************************************************************************)
\* the owner of key k by the ring of server s
Owner(s, k) == GetNode(intBits, hashRing[s], k).node
Answered(c) == call[c].phase = "ret"
AllUp == \A s \in NodeIds : up[s]

\* C4: every key in the store of a node is owned by that node, and a node
\* that called its store for a request owns the key of the request.
C4_OnlyOwnerTouchesStore ==
  /\ \A s \in NodeIds : \A k \in DOMAIN data[s] : Owner(s, k) = s
  /\ \A c \in Clients :
       call[c].served # EmptyString => Owner(call[c].served, call[c].key) = call[c].served

\* a Put received by a node that does not own the key was answered, the value
\* is in the store of the owner and in no other store
C4_Witness ==
  \E c \in Clients :
    /\ Answered(c) /\ call[c].op = "Put" /\ Len(call[c].path) = 2
    /\ call[c].served = call[c].path[2]
    /\ KvGet(data[call[c].served], call[c].key).exists
    /\ \A s \in NodeIds \ {call[c].served} : data[s] = NewKeyValueStore

\* the step in which the request of c is answered without error
ServedStep(c) ==
  call[c].phase = "recv" /\ call'[c].phase = "ret" /\ call'[c].result.err = NoErr

\* C5: whichever node receives a request, the response to the client and the
\* resulting stores are those of the local branch run at the owner of the key:
\* the response of the owner reaches the client unchanged.
C5_ForwardingTransparent ==
  [][\A c \in Clients :
       ServedStep(c) =>
         LET entry == call[c].path[1]
             owner == Owner(entry, call[c].key)
         IN /\ call'[c].result = LocalResponse(call[c].op, data[owner], call[c].key)
            /\ data' = [data EXCEPT ![owner] =
                          LocalStore(call[c].op, data[owner], call[c].key,
                                     call[c].value)]]_vars

\* a Get received by a node that does not own the key was answered with the
\* value held by the owner
C5_Witness ==
  \E c \in Clients :
    /\ Answered(c) /\ call[c].op = "Get" /\ Len(call[c].path) = 2
    /\ call[c].result.err = NoErr /\ call[c].result.found
    /\ call[c].result.value = data[call[c].path[2]][call[c].key]

\* C6: with every node reachable, a Get issued after a Put(K, V) returned
\* success, with no other Put or Delete of K issued since that Put, is answered
\* (V, found = true) at whichever node it was issued.
C6_GetAfterPut ==
  \A c \in Clients :
    (Answered(c) /\ call[c].op = "Get" /\ call[c].expect # <<>> /\ call[c].quiet
       /\ AllUp)
      => call[c].result = GetResponse(call[c].expect[1], TRUE)

\* such a Get, received by a node that does not own the key
C6_Witness ==
  \E c \in Clients :
    /\ Answered(c) /\ call[c].op = "Get" /\ call[c].expect # <<>> /\ call[c].quiet
    /\ AllUp /\ Len(call[c].path) = 2
    /\ call[c].result = GetResponse(call[c].expect[1], TRUE)

\* the step in which the request of c is answered by a handler that is not
\* the owner of the key and cannot reach the owner
FailedStep(c) ==
  /\ call[c].phase = "recv" /\ call'[c].phase = "ret"
  /\ Owner(At(c), call[c].key) # At(c)
  /\ ~up[Owner(At(c), call[c].key)]

\* C8: when the call to the owner cannot be established or fails, the caller
\* gets that failure, the owner was tried once and no other node was, and no
\* store has changed.
C8_ForwardFailureReported ==
  [][\A c \in Clients :
       FailedStep(c) =>
         /\ call'[c].result \in {Failure(err) : err \in ForwardErrors}
         /\ call'[c].tried = <<Owner(call[c].path[1], call[c].key)>>
         /\ call'[c].served = EmptyString
         /\ data' = data]_vars

\* a request whose forward failed and that was answered with the failure
C8_Witness ==
  \E c \in Clients :
    /\ Answered(c) /\ call[c].result.err \in ForwardErrors
    /\ Len(call[c].tried) = 1 /\ ~up[call[c].tried[1]]
    /\ call[c].served = EmptyString

\* the step in which a node serves the request of c from its own store
LocalStep(c) == call[c].phase = "recv" /\ call'[c].served # EmptyString

\* C9: a Get of an absent key is answered found = false without error, a
\* Delete of an absent key is answered success, and neither changes a store,
\* so that repeating them gives the same answers.
C9_AbsentKeyIsNormal ==
  [][\A c \in Clients :
       (LocalStep(c) /\ call[c].op \in {"Get", "Delete"}
          /\ call[c].key \notin DOMAIN data[call'[c].served])
         => /\ data' = data
            /\ call'[c].result =
                 IF call[c].op = "Get" THEN GetResponse(EmptyString, FALSE)
                                       ELSE DeleteResponse(TRUE)]_vars

\* a Delete of a key the owner did not hold, answered success
C9_Witness ==
  \E c \in Clients :
    /\ Answered(c) /\ call[c].op = "Delete" /\ ~call[c].existed
    /\ call[c].served # EmptyString
    /\ call[c].result = DeleteResponse(TRUE)

(***************************************************************************)
(* Properties of the store (SpecStore).                                    *)
(***************************************************************************)
Returned(t) == thr[t].pc = "idle" /\ thr[t].n > 0

\* C7: a Get returns the value of the last Put executed on its key with
\* exists = true, and exists = false when a Delete was executed on its key
\* after that Put; Put and Delete on other keys do not change what it returns.
C7_RoundTrip ==
  \A t \in Threads :
    (Returned(t) /\ thr[t].op = "Get" /\ thr[t].prior # <<>>) =>
      IF thr[t].prior[1] = "Put"
        THEN thr[t].ret = [value |-> thr[t].prior[2], exists |-> TRUE]
        ELSE ~thr[t].ret.exists

\* a Get of a key that returned the value put there while the last write to
\* another key was a Delete
C7_Witness ==
  \E t \in Threads : \E k \in StoreKeys \ {thr[t].key} :
    /\ Returned(t) /\ thr[t].op = "Get"
    /\ thr[t].prior # <<>> /\ thr[t].prior[1] = "Put"
    /\ thr[t].ret = [value |-> thr[t].prior[2], exists |-> TRUE]
    /\ lastWrite[k] = <<"Delete">>

\* the goroutines t and u have each made one call, a Put, and both returned
TwoWriters(t, u) ==
  /\ t # u
  /\ Returned(t) /\ thr[t].n = 1 /\ thr[t].op = "Put"
  /\ Returned(u) /\ thr[u].n = 1 /\ thr[u].op = "Put"

\* C10: after two concurrent Puts have returned, if their keys differ the
\* store holds both written values, and if they wrote the same key it holds
\* one of the two written values.
C10_ConcurrentWriters ==
  \A t, u \in Threads :
    TwoWriters(t, u) =>
      IF thr[t].key # thr[u].key
        THEN /\ KvGet(kvs.data, thr[t].key) = [value |-> thr[t].value, exists |-> TRUE]
             /\ KvGet(kvs.data, thr[u].key) = [value |-> thr[u].value, exists |-> TRUE]
        ELSE /\ KvGet(kvs.data, thr[t].key).exists
             /\ KvGet(kvs.data, thr[t].key).value \in {thr[t].value, thr[u].value}

\* two Puts of different values to the same key have returned and the store
\* holds the value of the first goroutine
C10_Witness ==
  \E t, u \in Threads :
    /\ TwoWriters(t, u) /\ t < u
    /\ thr[t].key = thr[u].key /\ thr[t].value # thr[u].value
    /\ KvGet(kvs.data, thr[t].key).value = thr[t].value

\* goroutine t is inside the critical section of its call
InCS(t) == thr[t].pc = "cs"
Writes(t) == thr[t].op \in {"Put", "Delete"}

\* C11: while a Put or Delete is inside its critical section no other Put,
\* Delete or Get is inside its critical section; a Get that asks for the lock
\* while another Get is inside and no writer holds or awaits the lock can enter.
C11_WriterExcludesAll ==
  \A t, u \in Threads :
    t # u =>
      /\ (InCS(t) /\ Writes(t)) => ~InCS(u)
      /\ (InCS(u) /\ ~Writes(u) /\ thr[t].pc = "lock" /\ ~Writes(t) /\ kvs.mu.w = 0)
           => ENABLED RLock(t)

\* two Gets are inside their critical sections at the same time
C11_Witness ==
  \E t, u \in Threads :
    t # u /\ InCS(t) /\ ~Writes(t) /\ InCS(u) /\ ~Writes(u)
       /\ kvs.mu.readers = {t, u}

C12_HandlersKeepRing == [][hashRing' = hashRing]_vars

\* the nodes of the AddNode calls are distinct
DistinctAdds == Cardinality(Range(added)) = Len(added)
\* the virtual indices of a node
Replicas == 0..(hr.replication - 1)
\* the hash of the entry of node n with virtual index i
EntryHash(n, i) == Hash(intBits, n \o Itoa(i))
\* the positions of the entry sequence that map to node n
PositionsOf(n) ==
  {j \in DOMAIN hr.nodes :
     hr.nodes[j] \in DOMAIN hr.nodeMap /\ hr.nodeMap[hr.nodes[j]] = n}

\* C13: after AddNode calls for k distinct nodes the ring holds R * k entries,
\* R of them for each node; the entry of node n with virtual index i is at
\* hash(n ++ i) and maps back to n.
C13_REntriesPerNode ==
  DistinctAdds =>
    /\ Len(hr.nodes) = hr.replication * Len(added)
    /\ \A n \in Range(added) :
         /\ Cardinality(PositionsOf(n)) = hr.replication
         /\ \A i \in Replicas :
              /\ EntryHash(n, i) \in Range(hr.nodes)
              /\ hr.nodeMap[EntryHash(n, i)] = n

\* the entry sequence is ascending
Sorted(nodes) ==
  \A j \in 1..(Len(nodes) - 1) : ~IntLess(nodes[j + 1], nodes[j])

\* C14: the entry sequence is sorted ascending by hash value whenever an
\* AddNode call has returned, hence at every GetNode call.
C14_EntriesSorted == Sorted(hr.nodes)

\* the last AddNode call
LastAdded == added[Len(added)]

\* the ring as it was before the last AddNode call
RECURSIVE Rebuild(_)
Rebuild(list) ==
  IF list = <<>> THEN NewHashRing(hr.replication)
  ELSE AddNode(intBits, Rebuild(SubSeq(list, 1, Len(list) - 1)), list[Len(list)])
Before == Rebuild(SubSeq(added, 1, Len(added) - 1))

\* an entry of the last AddNode call lies below an entry that was in the ring
\* before the call: appended last, it was moved by the sort
C14_Witness ==
  /\ Len(added) >= 2 /\ hr.replication >= 2
  /\ \E i \in Replicas :
       IntLess(EntryHash(LastAdded, i), Before.nodes[Len(Before.nodes)])
  /\ Sorted(hr.nodes)

\* C15: an AddNode of a node that is not in a non-empty ring moves a key only
\* to that node: for every key, GetNode after the call returns what it
\* returned before the call or the new node.
C15_MinimalRepartition ==
  [][(added' # added /\ hr.nodes # <<>> /\ added'[Len(added')] \notin Range(added))
       => \A key \in Keys :
            GetNode(intBits, hr', key).node \in
              {GetNode(intBits, hr, key).node, added'[Len(added')]}]_vars

\* after the AddNode of a new node one key is with the new node and was not
\* before, and another key is with the node it was with before
C15_Witness ==
  /\ Len(added) >= 2 /\ LastAdded \notin Range(SubSeq(added, 1, Len(added) - 1))
  /\ Before.nodes # <<>>
  /\ \E k1, k2 \in Keys :
       /\ GetNode(intBits, hr, k1).node = LastAdded
       /\ GetNode(intBits, Before, k1).node # LastAdded
       /\ GetNode(intBits, hr, k2).node = GetNode(intBits, Before, k2).node
       /\ GetNode(intBits, hr, k2).node # LastAdded

\* the step is an AddNode call for a node that was added before
ReAdd == added' # added /\ added'[Len(added')] \in Range(added)
\* the positions of the entry sequence nodes that hold the hash h
Occurrences(nodes, h) == {j \in DOMAIN nodes : nodes[j] = h}

\* C17: an AddNode of a node that was added before appends R further entries:
\* the entry sequence grows by R and holds the hash of every virtual index of
\* the node once more than before.
C17_ReAddDuplicates ==
  [][ReAdd =>
       /\ Len(hr'.nodes) = Len(hr.nodes) + hr.replication
       /\ \A i \in Replicas :
            Cardinality(Occurrences(hr'.nodes, EntryHash(added'[Len(added')], i)))
              = Cardinality(Occurrences(hr.nodes, EntryHash(added'[Len(added')], i))) + 1]_vars

\* a node was added twice in a row and each of its hashes is in the entry
\* sequence twice
C17_Witness ==
  /\ Len(added) >= 2 /\ LastAdded = added[Len(added) - 1]
  /\ hr.replication >= 2
  /\ \A i \in Replicas :
       Cardinality(Occurrences(hr.nodes, EntryHash(LastAdded, i))) >= 2

\* C18: an AddNode of a node that was added before changes the routing of no
\* key.
C18_ReAddKeepsRouting ==
  [][ReAdd =>
       \A key \in Keys : GetNode(intBits, hr', key) = GetNode(intBits, hr, key)]_vars

\* C20: with R >= 1 the nodes in the range of the hash-to-node mapping are the
\* nodes that were added.
C20_EveryAddedNodeOwnsAPosition ==
  hr.replication >= 1 => Range(hr.nodeMap) = Range(added)

(***************************************************************************)
(* More properties of the cluster (Spec).                                  *)
(***************************************************************************)
\* the servers that hold key k in the stores d
Holders(d, k) == {s \in NodeIds : k \in DOMAIN d[s]}
\* the cluster as one register per key: the map of k alone, as the stores d
\* of the cluster hold it
Register(d, k) ==
  IF Holders(d, k) = {} THEN NewKeyValueStore
  ELSE [x \in {k} |-> d[CHOOSE s \in Holders(d, k) : TRUE][k]]

\* C16: the operations on a key are linearizable.  Every key is held by at
\* most one server; between the issue of a request and its response there is
\* one step at which the request acts on the register of its key as Put, Get
\* or Delete act on a map, and its response is the response of that map; a
\* request that fails, and every other step, leaves the registers unchanged.
C16_LinearizablePerKey ==
  [][/\ \A k \in ReqKeys : Cardinality(Holders(data', k)) <= 1
     /\ \A c \in Clients :
          ServedStep(c) =>
            /\ call'[c].result =
                 LocalResponse(call[c].op, Register(data, call[c].key), call[c].key)
            /\ Register(data', call[c].key) =
                 LocalStore(call[c].op, Register(data, call[c].key), call[c].key,
                            call[c].value)
            /\ \A k \in ReqKeys \ {call[c].key} : Register(data', k) = Register(data, k)
     /\ (\A c \in Clients : ~ServedStep(c)) =>
          \A k \in ReqKeys : Register(data', k) = Register(data, k)]_vars

\* a Get issued at one server while a Put of the same key issued at another
\* server was in progress has returned the value of that Put, which has not
\* returned yet
C16_Witness ==
  \E c, e \in Clients :
    /\ c # e /\ call[c].key = call[e].key
    /\ Answered(c) /\ call[c].op = "Get" /\ ~call[c].quiet
    /\ Answered(e) /\ call[e].op = "Put" /\ call[e].result = PutResponse(TRUE)
    /\ call[c].path[1] # call[e].path[1]
    /\ call[c].result = GetResponse(call[e].value, TRUE)
    /\ call[c].expect # <<call[e].value>>

\* the guard of ServeLocal(c) and the guard of Handle(c): the handler of the
\* request of c can serve it from its store, or can take some step
CanServe(c) ==
  /\ call[c].phase = "recv" /\ up[At(c)] /\ ~Target(c).panic
  /\ MustServe(Target(c).node, At(c))
CanHandle(c) ==
  \/ CanServe(c)
  \/ /\ call[c].phase = "recv" /\ up[At(c)] /\ ~Target(c).panic
     /\ MustForward(Target(c).node, At(c))
     /\ \/ ~(Target(c).node \in NodeIds /\ up[Target(c).node])
        \/ Len(call[c].path) < MaxHops

\* C19: with the same ring at every server, itself among its nodes, a request
\* is forwarded at most once and the server it is forwarded to is the owner by
\* its own ring; a request that is not answered yet is never stuck: its
\* handler can take a step, which answers it or is its one forward, and after
\* the forward the step that serves it from the local store can be taken.
C19_ForwardedAtMostOnce ==
  \A c \in Clients :
    call[c].phase # "idle" =>
      /\ Len(call[c].path) <= 2 /\ Len(call[c].tried) <= 1
      /\ Len(call[c].path) = 2 =>
           (call[c].tried = <<At(c)>> /\ Owner(At(c), call[c].key) = At(c))
      /\ call[c].phase = "recv" => CanHandle(c)
      /\ (call[c].phase = "recv" /\ Len(call[c].path) = 2) => CanServe(c)

\* a request was forwarded once and answered by the owner, with no error
C19_Witness ==
  \E c \in Clients :
    /\ Answered(c) /\ Len(call[c].path) = 2 /\ call[c].tried = <<call[c].path[2]>>
    /\ call[c].served = call[c].path[2] /\ call[c].result.err = NoErr
    /\ Owner(call[c].path[1], call[c].key) = call[c].path[2]

=============================================================================
